---- MODULE Spec2Model ----
(***************************************************************************)
(* The judge panel of legal_events_prod (src/core/judge_panel.py and       *)
(* src/core/judges/): construction of the panel from the configured        *)
(* credentials, the concurrent dispatch of judge_providers to every judge, *)
(* the collection of the results in arrival order and the reduction of the *)
(* collected JudgeResults to one PanelResult.                              *)
(*                                                                         *)
(* Numbers.  Python floats are modelled as exact rationals [n, d] in       *)
(* lowest terms.  A standard deviation, which no later arithmetic reads,   *)
(* is kept exact as the root [sqrt_of |-> q] of its variance q.  The root  *)
(* in a correlation, which is divided by, averaged and compared, is exact  *)
(* where it is rational and otherwise rounded down to a multiple of        *)
(* 1/SqrtGrid.                                                             *)
(* Dictionaries keep insertion order, as Python's do: a dict is a sequence *)
(* of [k, v] entries with distinct keys.                                   *)
(***************************************************************************)
EXTENDS Integers, Sequences, FiniteSets, TLC

\* ------------------------------------------------------------------ bounds
\* Longest "providers" array a judge's response carries.
MaxScores == 2
\* Resolution of an irrational square root: multiples of 1/SqrtGrid.
SqrtGrid == 100

\* --------------------------------------------------------------- rationals
Abs(x) == IF x < 0 THEN -x ELSE x

RECURSIVE GCD(_, _)
GCD(a, b) == IF b = 0 THEN a ELSE GCD(b, a % b)

\* n/d with the common factor g taken out and the sign carried by n.
Reduce(n, d, g) == IF d < 0 THEN [n |-> (-n) \div g, d |-> (-d) \div g]
                   ELSE [n |-> n \div g, d |-> d \div g]

Rat(n, d) == IF d = 1 THEN [n |-> n, d |-> 1] ELSE Reduce(n, d, GCD(Abs(n), Abs(d)))

Zero == [n |-> 0, d |-> 1]
FromInt(i) == [n |-> i, d |-> 1]
Lowest(x) == IF x.d = 1 THEN x ELSE Rat(x.n, x.d)

\* Sum, difference and product as fractions that are not reduced (d > 0).
Plus(x, y) ==
    IF x.d = y.d THEN [n |-> x.n + y.n, d |-> x.d]
    ELSE [n |-> x.n * y.d + y.n * x.d, d |-> x.d * y.d]
Minus(x, y) ==
    IF x.d = y.d THEN [n |-> x.n - y.n, d |-> x.d]
    ELSE [n |-> x.n * y.d - y.n * x.d, d |-> x.d * y.d]
Times(x, y) == [n |-> x.n * y.n, d |-> x.d * y.d]

RAdd(x, y) == Lowest(Plus(x, y))
RSub(x, y) == Lowest(Minus(x, y))
RMul(x, y) == Lowest(Times(x, y))
RDiv(x, y) == Rat(x.n * y.d, x.d * y.n)
RLe(x, y) == x.n * y.d <= y.n * x.d
RLt(x, y) == x.n * y.d < y.n * x.d
RGe(x, y) == RLe(y, x)

RECURSIVE SumOf(_)
SumOf(xs) == IF xs = <<>> THEN Zero ELSE Plus(Head(xs), SumOf(Tail(xs)))

\* sum(xs)
RSum(xs) == Lowest(SumOf(xs))

\* Largest k with k * k <= x, by bisection on lo .. hi.
RECURSIVE ISqrtIn(_, _, _)
ISqrtIn(x, lo, hi) ==
    IF lo >= hi THEN lo
    ELSE LET mid == (lo + hi + 1) \div 2
         IN  IF mid * mid <= x THEN ISqrtIn(x, mid, hi) ELSE ISqrtIn(x, lo, mid - 1)

ISqrt(x) == ISqrtIn(x, 0, IF x < 46340 THEN x ELSE 46340)

\* The root of x, given the integer roots rn and rd of its two terms.
RootOf(x, rn, rd) ==
    IF rn * rn = x.n /\ rd * rd = x.d
    THEN Rat(rn, rd)
    ELSE Rat(ISqrt((x.n * SqrtGrid * SqrtGrid) \div x.d), SqrtGrid)

\* x ** 0.5 for a rational x >= 0.
FloatSqrt(x) == RootOf(x, ISqrt(x.n), ISqrt(x.d))

\* ------------------------------------------------------------ ordered dicts
SeqToSet(s) == {s[i] : i \in 1..Len(s)}

DictKeys(d) == [i \in 1..Len(d) |-> d[i].k]
DictValues(d) == [i \in 1..Len(d) |-> d[i].v]
DictHas(d, key) == \E i \in 1..Len(d) : d[i].k = key
DictGet(d, key) == d[CHOOSE i \in 1..Len(d) : d[i].k = key].v
DictGetOr(d, key, default) == IF DictHas(d, key) THEN DictGet(d, key) ELSE default
\* d[key] = value: an existing key keeps its place, a new one goes last.
DictSet(d, key, value) ==
    IF DictHas(d, key)
    THEN [i \in 1..Len(d) |-> IF d[i].k = key THEN [k |-> key, v |-> value] ELSE d[i]]
    ELSE Append(d, [k |-> key, v |-> value])

\* --------------------------------------------------------------- statistics
\* sorted(data) for a sequence of rationals (insertion sort).
RECURSIVE Insert(_, _)
Insert(x, s) ==
    IF s = <<>> THEN <<x>>
    ELSE IF RLe(x, Head(s)) THEN <<x>> \o s
    ELSE <<Head(s)>> \o Insert(x, Tail(s))

RECURSIVE Sorted(_)
Sorted(s) == IF s = <<>> THEN <<>> ELSE Insert(Head(s), Sorted(Tail(s)))

\* The middle of a sorted non-empty sequence: the middle value, or the mean of
\* the two middle values.
Middle(s) ==
    IF Len(s) % 2 = 1 THEN s[(Len(s) \div 2) + 1]
    ELSE RDiv(RAdd(s[Len(s) \div 2], s[(Len(s) \div 2) + 1]), FromInt(2))

\* statistics.median of a non-empty sequence.
Median(data) == Middle(Sorted(data))

\* statistics.mean of a non-empty sequence.
Mean(data) == RDiv(RSum(data), FromInt(Len(data)))

\* sum((x[i] - mean_x) * (y[i] - mean_y) for i in range(n))
SumProdDev(x, mean_x, y, mean_y) ==
    RSum([i \in 1..Len(x) |-> Times(Minus(x[i], mean_x), Minus(y[i], mean_y))])

\* The sum of the squared deviations of data from its mean.
SumSqDev(data) == SumProdDev(data, Mean(data), data, Mean(data))

\* The exact square root of a rational q >= 0.
Sqrt(q) == [sqrt_of |-> q]

\* statistics.variance of n >= 2 values with sum sx and sum of squares sxx, as
\* the library takes it in exact arithmetic: (n * sxx - sx * sx) / n / (n - 1).
VarianceOf(n, sx, sxx) ==
    RDiv(Minus(Times(FromInt(n), sxx), Times(sx, sx)), FromInt(n * (n - 1)))

Variance(data) ==
    VarianceOf(Len(data), SumOf(data), SumOf([i \in 1..Len(data) |-> Times(data[i], data[i])]))

\* statistics.stdev of a sequence of two or more values: divisor n - 1.
Stdev(data) == Sqrt(Variance(data))

\* JudgePanel._pearson_correlation.
\* The last lines of _pearson_correlation.
PearsonOf(numerator, denominator_x, denominator_y) ==
    IF denominator_x = Zero \/ denominator_y = Zero THEN Zero
    ELSE RDiv(numerator, FloatSqrt(RMul(denominator_x, denominator_y)))

PearsonCorrelation(x, y) ==
    IF Len(x) # Len(y) \/ Len(x) < 2 THEN Zero
    ELSE PearsonOf(SumProdDev(x, Mean(x), y, Mean(y)), SumSqDev(x), SumSqDev(y))

\* The last lines without the test for a zero denominator.
PearsonTryUnguarded(numerator, denominator_x, denominator_y) ==
    IF FloatSqrt(RMul(denominator_x, denominator_y)) = Zero
    THEN [raised |-> TRUE]
    ELSE [raised |-> FALSE,
          value |-> RDiv(numerator, FloatSqrt(RMul(denominator_x, denominator_y)))]

\* What the last lines of _pearson_correlation do: the division raises
\* ZeroDivisionError when it is reached with a divisor of 0.
PearsonTry(numerator, denominator_x, denominator_y) ==
    IF ~(denominator_x = Zero \/ denominator_y = Zero)
       /\ FloatSqrt(RMul(denominator_x, denominator_y)) = Zero
    THEN [raised |-> TRUE]
    ELSE [raised |-> FALSE, value |-> PearsonOf(numerator, denominator_x, denominator_y)]

\* A call of _pearson_correlation: the float it returns, or the exception.
PearsonCall(x, y) ==
    IF Len(x) # Len(y) \/ Len(x) < 2 THEN [raised |-> FALSE, value |-> Zero]
    ELSE PearsonTry(SumProdDev(x, Mean(x), y, Mean(y)), SumSqDev(x), SumSqDev(y))

\* ------------------------------------------------------------------- judges
\* The judge variants, in the order JudgePanel.__init__ tries them.
Variants == <<"GPT5Judge", "ClaudeOpusJudge", "GeminiProJudge">>
VariantSet == SeqToSet(Variants)

\* Judges that all write the same judge_name.
JudgeNameShared(v) == "judge"

\* The judge_name each variant writes into its JudgeResult.
JudgeName(v) ==
    CASE v = "GPT5Judge" -> "gpt-5"
      [] v = "ClaudeOpusJudge" -> "claude-opus-4-1"
      [] v = "GeminiProJudge" -> "gemini-2.5-pro"

\* The model id each variant is constructed with.
ModelId(v) ==
    CASE v = "GPT5Judge" -> "gpt-5"
      [] v = "ClaudeOpusJudge" -> "claude-opus-4-1"
      [] v = "GeminiProJudge" -> "gemini-2.5-pro"

Criteria ==
    <<"completeness", "accuracy", "hallucinations", "citation_quality", "overall_quality">>

\* The cost _call_api leaves in _last_cost, in millionths of a dollar, for a
\* call that used `usage` tokens: the variant's input and output rates.
CallCost(v, usage) ==
    CASE v = "GPT5Judge" ->
           RAdd(Rat(usage.input_tokens * 5, 2), FromInt(usage.output_tokens * 10))
      [] v = "ClaudeOpusJudge" ->
           RAdd(FromInt(usage.input_tokens * 15), FromInt(usage.output_tokens * 75))
      [] v = "GeminiProJudge" ->
           RAdd(Rat(usage.input_tokens * 5, 4), FromInt(usage.output_tokens * 5))

\* The thinking tokens a JudgeResult reports: the usage field (GPT-5), 1.3 per
\* word of the thinking block (Claude), none (Gemini).
CallThinkingTokens(v, usage) ==
    CASE v = "GPT5Judge" -> FromInt(usage.reasoning_tokens)
      [] v = "ClaudeOpusJudge" -> Rat(usage.thinking_words * 13, 10)
      [] v = "GeminiProJudge" -> Zero

\* provider_outputs.get(name, []).
EventsOf(po, name) == DictGetOr(po, name, <<>>)

\* float(x) of a JSON number: the same number.
Float(x) == x

EntryFields ==
    {"provider", "completeness", "accuracy", "hallucinations", "citation_quality",
     "overall_quality", "reasoning"}

\* One ProviderScore, built from one entry of the response's "providers" array.
MakeProviderScore(document_name, po, provider_data) ==
    [provider |-> provider_data.provider,
     document_name |-> document_name,
     completeness |-> Float(provider_data.completeness),
     accuracy |-> Float(provider_data.accuracy),
     hallucinations |-> Float(provider_data.hallucinations),
     citation_quality |-> Float(provider_data.citation_quality),
     overall_quality |-> Float(provider_data.overall_quality),
     reasoning |-> provider_data.reasoning,
     event_count |-> Len(EventsOf(po, provider_data.provider))]

\* A winner recomputed from the scores: the provider of the first entry with the
\* highest overall_quality.
WinnerByScore(result) ==
    LET providers == IF "providers" \in DOMAIN result THEN result.providers ELSE <<>>
        best == {i \in 1..Len(providers) :
                    \A j \in 1..Len(providers) :
                        RLe(providers[j].overall_quality, providers[i].overall_quality)}
    IN  IF best = {} THEN "unknown"
        ELSE providers[CHOOSE i \in best : \A j \in best : i <= j].provider

\* result.get("winner", "unknown"): the response's own field, as it is.
WinnerField(result) == IF "winner" \in DOMAIN result THEN result.winner ELSE "unknown"

\* judge_providers of variant v on one response of its API: the call raises when
\* the API call raised, when the text is not JSON, or when an entry lacks a field
\* it reads; otherwise it returns a JudgeResult.  A response is
\* [status, body, usage]; a JSON object is a function on its keys.
JudgeProviders(v, document_name, po, response) ==
    IF response.status # "json" THEN [raised |-> TRUE]
    ELSE LET result == response.body
             providers ==
                 IF "providers" \in DOMAIN result THEN result.providers ELSE <<>>
         IN  IF \E i \in 1..Len(providers) : ~(EntryFields \subseteq DOMAIN providers[i])
             THEN [raised |-> TRUE]
             ELSE [raised |-> FALSE,
                   value |->
                     [judge_name |-> JudgeName(v),
                      model |-> ModelId(v),
                      document_name |-> document_name,
                      provider_scores |->
                          [i \in 1..Len(providers) |->
                              MakeProviderScore(document_name, po, providers[i])],
                      winner |-> WinnerField(result),
                      cost |-> CallCost(v, response.usage),
                      thinking_tokens |-> CallThinkingTokens(v, response.usage)]]

\* -------------------------------------------------------------- aggregation
\* Every ProviderScore of every judge result, in the order the nested loops of
\* _calculate_consensus_scores visit them.
RECURSIVE AllScores(_)
AllScores(results) ==
    IF results = <<>> THEN <<>>
    ELSE Head(results).provider_scores \o AllScores(Tail(results))

\* The ProviderScores the loops of _calculate_consensus_scores find for one
\* provider: every score of every judge result that names it.
ScoresOf(individual_results, provider) ==
    SelectSeq(AllScores(DictValues(individual_results)),
              LAMBDA score : score.provider = provider)

\* The list the loop body fills for one criterion.
Column(hits, criterion) == [i \in 1..Len(hits) |-> hits[i][criterion]]

\* statistics.stdev(xs) if len(xs) > 1 else 0.0
StdevOrZero(xs) == IF Len(xs) > 1 THEN Stdev(xs) ELSE Sqrt(Zero)

\* The ConsensusScore of a provider, from its non-empty list of ProviderScores.
MakeConsensusScore(provider, hits) ==
    [provider |-> provider,
     completeness |-> Median(Column(hits, "completeness")),
     accuracy |-> Median(Column(hits, "accuracy")),
     hallucinations |-> Median(Column(hits, "hallucinations")),
     citation_quality |-> Median(Column(hits, "citation_quality")),
     overall_quality |-> Median(Column(hits, "overall_quality")),
     score_variance |-> [c \in SeqToSet(Criteria) |-> StdevOrZero(Column(hits, c))]]

\* One provider's round of the loop: a provider nobody scored adds nothing.
ConsensusStep(consensus_scores, provider, hits) ==
    IF hits # <<>>
    THEN DictSet(consensus_scores, provider, MakeConsensusScore(provider, hits))
    ELSE consensus_scores

\* JudgePanel._calculate_consensus_scores: the loop over provider_outputs.keys().
RECURSIVE ConsensusLoop(_, _, _)
ConsensusLoop(individual_results, providers, consensus_scores) ==
    IF providers = <<>> THEN consensus_scores
    ELSE ConsensusLoop(
             individual_results, Tail(providers),
             ConsensusStep(consensus_scores, Head(providers),
                           ScoresOf(individual_results, Head(providers))))

\* A loop over every provider name the judges scored, in place of the keys of
\* provider_outputs.
ConsensusOfAllNamed(individual_results, po) ==
    ConsensusLoop(
        individual_results,
        [i \in 1..Len(AllScores(DictValues(individual_results))) |->
            AllScores(DictValues(individual_results))[i].provider],
        <<>>)

CalculateConsensusScores(individual_results, po) ==
    ConsensusLoop(individual_results, DictKeys(po), <<>>)

\* The tally loop of _determine_consensus_winner.
RECURSIVE TallyVotes(_, _)
TallyVotes(results, winner_votes) ==
    IF results = <<>> THEN winner_votes
    ELSE TallyVotes(Tail(results),
                    DictSet(winner_votes, Head(results).winner,
                            DictGetOr(winner_votes, Head(results).winner, 0) + 1))

\* The first key of the tally, whatever its count.
FirstVotes(winner_votes) == winner_votes[1].k

\* The last entry no other entry exceeds: a tie goes to the provider seen last.
LastMaxVotes(winner_votes) ==
    LET i == CHOOSE i \in 1..Len(winner_votes) :
                 /\ \A j \in 1..Len(winner_votes) : winner_votes[j].v <= winner_votes[i].v
                 /\ \A j \in (i + 1)..Len(winner_votes) : winner_votes[j].v < winner_votes[i].v
    IN  winner_votes[i].k

\* max(winner_votes.items(), key=lambda x: x[1])[0]: the first entry no other
\* entry exceeds.
MaxVotes(winner_votes) ==
    LET i == CHOOSE i \in 1..Len(winner_votes) :
                 /\ \A j \in 1..Len(winner_votes) : winner_votes[j].v <= winner_votes[i].v
                 /\ \A j \in 1..(i - 1) : winner_votes[j].v < winner_votes[i].v
    IN  winner_votes[i].k

\* A winner that must lead the tally alone: a tie raises as an empty tally does.
WinnerOfStrict(winner_votes) ==
    IF winner_votes = <<>> \/
       Cardinality({i \in 1..Len(winner_votes) :
                       \A j \in 1..Len(winner_votes) : winner_votes[j].v <= winner_votes[i].v}) > 1
    THEN [raised |-> TRUE]
    ELSE [raised |-> FALSE,
          consensus_winner |-> MaxVotes(winner_votes),
          winner_votes |-> winner_votes]

\* A winner determination that answers "unknown" for an empty tally.
WinnerOfDefault(winner_votes) ==
    IF winner_votes = <<>>
    THEN [raised |-> FALSE, consensus_winner |-> "unknown", winner_votes |-> winner_votes]
    ELSE [raised |-> FALSE,
          consensus_winner |-> MaxVotes(winner_votes),
          winner_votes |-> winner_votes]

\* The winner of a tally: max() of an empty tally raises.
WinnerOf(winner_votes) ==
    IF winner_votes = <<>> THEN [raised |-> TRUE]
    ELSE [raised |-> FALSE,
          consensus_winner |-> MaxVotes(winner_votes),
          winner_votes |-> winner_votes]

\* JudgePanel._determine_consensus_winner.
DetermineConsensusWinner(individual_results) ==
    WinnerOf(TallyVotes(DictValues(individual_results), <<>>))

OverallQualities(judge_result) ==
    [i \in 1..Len(judge_result.provider_scores) |->
        judge_result.provider_scores[i].overall_quality]

\* The index pairs (i, j), i < j, in the order of the nested loops.
RECURSIVE PairsFrom(_, _, _)
PairsFrom(i, j, n) ==
    IF i >= n THEN <<>>
    ELSE IF j > n THEN PairsFrom(i + 1, i + 2, n)
    ELSE <<(<<i, j>>)>> \o PairsFrom(i, j + 1, n)

\* A round of the pair loop that correlates every pair, whatever the lengths.
CorrelationStepAnyLength(correlations, judge1, judge2, scores1, scores2) ==
    DictSet(correlations, judge1 \o "_vs_" \o judge2, PearsonCorrelation(scores1, scores2))

\* One round of the pair loop of _calculate_agreement: a pair is correlated when
\* the two score lists have the same length, above 1.
CorrelationStep(correlations, judge1, judge2, scores1, scores2) ==
    IF Len(scores1) = Len(scores2) /\ Len(scores1) > 1
    THEN DictSet(correlations, judge1 \o "_vs_" \o judge2,
                 PearsonCorrelation(scores1, scores2))
    ELSE correlations

\* The pairwise correlations of _calculate_agreement.
RECURSIVE CorrelationLoop(_, _, _)
CorrelationLoop(individual_results, pairs, correlations) ==
    IF pairs = <<>> THEN correlations
    ELSE CorrelationLoop(
             individual_results, Tail(pairs),
             CorrelationStep(
                 correlations,
                 individual_results[Head(pairs)[1]].k,
                 individual_results[Head(pairs)[2]].k,
                 OverallQualities(individual_results[Head(pairs)[1]].v),
                 OverallQualities(individual_results[Head(pairs)[2]].v)))

\* The share of the results whose winner is the most-voted provider.
PluralityPct(individual_results) ==
    IF Len(individual_results) > 0
    THEN Rat(Cardinality({i \in 1..Len(individual_results) :
                            individual_results[i].v.winner =
                                MaxVotes(TallyVotes(DictValues(individual_results), <<>>))})
             * 100,
             Len(individual_results))
    ELSE Zero

\* The share of the results whose winner is the last result's winner.
LastJudgePct(individual_results) ==
    IF Len(individual_results) > 0
    THEN Rat(Cardinality({i \in 1..Len(individual_results) :
                            individual_results[i].v.winner =
                                individual_results[Len(individual_results)].v.winner})
             * 100,
             Len(individual_results))
    ELSE Zero

\* The winner consensus percentage of _calculate_agreement: the share of the
\* results whose winner is the first result's winner.
WinnerConsensusPct(individual_results) ==
    IF Len(individual_results) > 0
    THEN Rat(Cardinality({i \in 1..Len(individual_results) :
                            individual_results[i].v.winner = individual_results[1].v.winner})
             * 100,
             Len(individual_results))
    ELSE Zero

\* Thresholds with the consensus bar of MEDIUM at 66 instead of 67.
ConfidenceLevelTwoThirds(average_correlation, winner_consensus_pct) ==
    IF RGe(average_correlation, Rat(8, 10)) /\ winner_consensus_pct = FromInt(100)
    THEN "HIGH"
    ELSE IF RGe(average_correlation, Rat(6, 10)) /\ RGe(winner_consensus_pct, FromInt(66))
    THEN "MEDIUM"
    ELSE "LOW"

\* Thresholds whose MEDIUM looks at the correlation alone.
ConfidenceLevelByCorrelation(average_correlation, winner_consensus_pct) ==
    IF RGe(average_correlation, Rat(8, 10)) /\ winner_consensus_pct = FromInt(100)
    THEN "HIGH"
    ELSE IF RGe(average_correlation, Rat(6, 10))
    THEN "MEDIUM"
    ELSE "LOW"

\* Thresholds applied to the percentage rounded to a whole number.
ConfidenceLevelRounded(average_correlation, winner_consensus_pct) ==
    IF RGe(average_correlation, Rat(8, 10)) /\ winner_consensus_pct = FromInt(100)
    THEN "HIGH"
    ELSE IF /\ RGe(average_correlation, Rat(6, 10))
            /\ (2 * winner_consensus_pct.n + winner_consensus_pct.d)
                   \div (2 * winner_consensus_pct.d) >= 67
    THEN "MEDIUM"
    ELSE "LOW"

\* The confidence thresholds of _calculate_agreement.
ConfidenceLevel(average_correlation, winner_consensus_pct) ==
    IF RGe(average_correlation, Rat(8, 10)) /\ winner_consensus_pct = FromInt(100)
    THEN "HIGH"
    ELSE IF RGe(average_correlation, Rat(6, 10)) /\ RGe(winner_consensus_pct, FromInt(67))
    THEN "MEDIUM"
    ELSE "LOW"

\* The first correlation computed stands for all of them.
FirstCorrelation(correlations) ==
    IF correlations # <<>> THEN correlations[1].v ELSE Zero

\* statistics.mean(correlations.values()) if correlations else 0.0
AverageCorrelation(correlations) ==
    IF correlations # <<>> THEN Mean(DictValues(correlations)) ELSE Zero

\* The InterJudgeAgreement _calculate_agreement returns.
MakeAgreement(correlations, average_correlation, consensus_scores, winner_consensus_pct) ==
    [pearson_correlation |-> correlations,
     average_correlation |-> average_correlation,
     score_std_dev_per_provider |->
         [i \in 1..Len(consensus_scores) |->
             [k |-> consensus_scores[i].k, v |-> consensus_scores[i].v.score_variance]],
     winner_consensus_percentage |-> winner_consensus_pct,
     confidence_level |-> ConfidenceLevel(average_correlation, winner_consensus_pct)]

AgreementOf(correlations, consensus_scores, winner_consensus_pct) ==
    MakeAgreement(correlations, AverageCorrelation(correlations), consensus_scores,
                  winner_consensus_pct)

\* JudgePanel._calculate_agreement.
CalculateAgreement(individual_results, consensus_scores) ==
    AgreementOf(
        CorrelationLoop(individual_results, PairsFrom(1, 2, Len(individual_results)), <<>>),
        consensus_scores,
        WinnerConsensusPct(individual_results))

\* judge_document after _run_judges_parallel has returned individual_results:
\* the PanelResult it returns, or the exception that leaves it.
MakePanelResult(document_name, individual_results, consensus_scores, won) ==
    IF won.raised THEN [raised |-> TRUE]
    ELSE [raised |-> FALSE,
          value |->
            [document_name |-> document_name,
             judges_used |->
                 [i \in 1..Len(individual_results) |-> individual_results[i].v.judge_name],
             individual_results |-> individual_results,
             consensus_method |-> "median_scores_majority_winner",
             consensus_scores |-> consensus_scores,
             consensus_winner |-> won.consensus_winner,
             winner_votes |-> won.winner_votes,
             agreement |-> CalculateAgreement(individual_results, consensus_scores),
             total_cost |->
                 RSum([i \in 1..Len(individual_results) |-> individual_results[i].v.cost]),
             total_thinking_tokens |->
                 RSum([i \in 1..Len(individual_results) |->
                          individual_results[i].v.thinking_tokens])]]

BuildPanelResult(document_name, po, individual_results) ==
    MakePanelResult(document_name, individual_results,
                    CalculateConsensusScores(individual_results, po),
                    DetermineConsensusWinner(individual_results))

\* f"{x:.1f}" of a non-negative x, as the summary log prints the percentage: x
\* rounded to one decimal.
OneDecimal(q) == Rat((2 * 10 * q.n + q.d) \div (2 * q.d), 10)

\* ------------------------------------------------------------------- inputs
DocumentName == "doc"

\* The providers whose outputs are judged.
ProviderNames == {"A", "B"}

\* The provider names a judge's response may carry in its "providers" array:
\* provider A, or a name X that is no key of provider_outputs.
ResponseNames == {"A", "X"}

Event(i) ==
    [date |-> "2024-01-0" \o ToString(i), event_particulars |-> "filing", citation |-> "N/A"]

\* The provider_outputs the caller passes.
ProviderOutputsChoices ==
    { <<[k |-> "A", v |-> <<Event(1)>>], [k |-> "B", v |-> <<Event(1), Event(2)>>]>> }

\* What each judge's remote model thinks of a provider: the overall score.
\* 12 is out of the 0-10 range; the Claude judge rates both providers alike.
Opinion(v, p) ==
    CASE v = "GPT5Judge" /\ p = "A" -> 8
      [] v = "GPT5Judge" /\ p = "X" -> 9
      [] v = "ClaudeOpusJudge" -> 9
      [] v = "GeminiProJudge" /\ p = "A" -> 12
      [] v = "GeminiProJudge" /\ p = "X" -> 10

\* One entry of a response's "providers" array; the criteria differ from each
\* other, and citation_quality may fall below 0.
Entry(v, p) ==
    [provider |-> p,
     completeness |-> FromInt(Opinion(v, p)),
     accuracy |-> FromInt(Opinion(v, p) - 1),
     hallucinations |-> FromInt(10),
     citation_quality |-> FromInt(Opinion(v, p) - 9),
     overall_quality |-> Rat(Opinion(v, p) * 2 - 1, 2),
     reasoning |-> "ok"]

\* The provider names of a "providers" array: any sequence of at most MaxScores
\* names, repetitions included.
RECURSIVE NameLists(_)
NameLists(n) ==
    IF n = 0 THEN {<<>>}
    ELSE NameLists(n - 1) \cup
         {Append(l, p) : l \in {x \in NameLists(n - 1) : Len(x) = n - 1}, p \in ResponseNames}

\* The token usage the API reports for a call of variant v.
UsageOf(v) ==
    [input_tokens |-> 1000, output_tokens |-> 200,
     reasoning_tokens |-> 64, thinking_words |-> 10]

\* The responses the API of variant v may give: an error, or a JSON object.
ResponsesFor(v) ==
    {[status |-> "api_error"]} \cup
    {[status |-> "json",
      body |-> [providers |-> [i \in 1..Len(l) |-> Entry(v, l[i])], winner |-> w],
      usage |-> UsageOf(v)] : l \in NameLists(MaxScores), w \in ProviderNames}

\* The same, as a table from the variants.
Responses == [v \in VariantSet |-> ResponsesFor(v)]

\* -------------------------------------------------------------------- state
VARIABLES
    api_keys,          \* variant -> whether its API key is configured
    panel,             \* "unconstructed", "ready" or "config_error"
    judges,            \* self.judges: the variants constructed, in order
    ctor_calls,        \* the variants whose constructor __init__ has called
    warned,            \* the variants whose constructor raised (logged, not appended)
    api_calls,         \* variant -> number of _call_api calls made so far
    pc,                \* judge_document: "idle", "collecting", "returned", "raised"
    provider_outputs,  \* the argument of the judge_document call
    futures,           \* variant -> state of the future of its judge_providers call
    yielded,           \* the variants whose future as_completed has yielded
    results,           \* the results dict of _run_judges_parallel
    failed,            \* the variants the except branch logged as failed
    panel_result,      \* the PanelResult returned, or NoResult
    call,              \* the arguments of a function applied on its own, or NoCall
    value,             \* what that function returned, or NoResult
    attrs,             \* the attributes _call_api leaves on a judge object
    threads,           \* the judge_providers calls running on that one judge object
    run_status,        \* runs.status of the run, as committed in the database
    documents,         \* the number of committed Document rows of the run
    queue,             \* the process_run jobs enqueued for the run
    requests,          \* the start_run requests on the run: position and session
    worker             \* the process_run job at work on the run

\* One judge object shared by several calls, and a run of the API and its
\* worker; the panel leaves them alone.
side == <<attrs, threads, run_status, documents, queue, requests, worker>>

\* The state of a function applied on its own; the panel leaves it alone.
pure == <<call, value, side>>

vars ==
    <<api_keys, panel, judges, ctor_calls, warned, api_calls, pc, provider_outputs,
      futures, yielded, results, failed, panel_result, pure>>

NoResult == [none |-> TRUE]
NoCall == [none |-> TRUE]

\* A future's states.
NotSubmitted == [state |-> "none"]
Pending == [state |-> "pending"]
Running == [state |-> "running"]
Returned(r) == [state |-> "returned", result |-> r]
Raised == [state |-> "raised"]

IsDone(f) == f.state \in {"returned", "raised"}

\* The state a future ends in when its call has had the outcome out.
FutureOf(out) == IF out.raised THEN Raised ELSE Returned(out.value)

\* No judge object is shared and there is no run.
SideIdle ==
    /\ attrs = <<>>
    /\ threads = <<>>
    /\ run_status = "none"
    /\ documents = 0
    /\ queue = 0
    /\ requests = <<>>
    /\ worker = <<>>

\* No panel has been constructed and no judge_document call made.
Unconstructed ==
    /\ panel = "unconstructed"
    /\ judges = <<>>
    /\ ctor_calls = {}
    /\ warned = {}
    /\ api_calls = [v \in VariantSet |-> 0]
    /\ pc = "idle"
    /\ provider_outputs = <<>>
    /\ futures = [v \in VariantSet |-> NotSubmitted]
    /\ yielded = {}
    /\ results = <<>>
    /\ failed = {}
    /\ panel_result = NoResult

Init ==
    /\ api_keys \in [VariantSet -> BOOLEAN]
    /\ Unconstructed
    /\ call = NoCall
    /\ value = NoResult
    /\ SideIdle

\* ------------------------------------------------------------- construction
\* The judges __init__ appends: a variant is tried when its key is set, and
\* kept when its constructor does not raise.
InitializedJudges(keys, ctor_ok) ==
    SelectSeq(Variants, LAMBDA v : keys[v] /\ ctor_ok[v])

\* The variants whose constructor __init__ calls at all.
TriedJudges(keys) == {v \in VariantSet : keys[v]}

\* The variants whose constructor raised: __init__ logs a warning and goes on.
WarnedJudges(keys, ctor_ok) == {v \in VariantSet : keys[v] /\ ~ctor_ok[v]}

\* A panel that is content with a single judge.
AnyJudge(js) == ~(Len(js) < 1)

\* len(self.judges) < 2 raises ValueError.
EnoughJudges(js) == ~(Len(js) < 2)

\* JudgePanel.__init__; ctor_ok says which constructors do not raise.
Construct(ctor_ok) ==
    /\ panel = "unconstructed"
    /\ judges' = InitializedJudges(api_keys, ctor_ok)
    /\ ctor_calls' = TriedJudges(api_keys)
    /\ warned' = WarnedJudges(api_keys, ctor_ok)
    /\ panel' = IF EnoughJudges(judges') THEN "ready" ELSE "config_error"
    /\ UNCHANGED <<api_keys, api_calls, pc, provider_outputs, futures, yielded, results,
                   failed, panel_result, pure>>

\* ----------------------------------------------------------- judge_document
JudgeSet == SeqToSet(judges)

\* A pool of one worker thread: the calls run one after the other.
SequentialWorkers == IF judges = <<>> THEN 0 ELSE 1

\* ThreadPoolExecutor(max_workers=len(self.judges)).
MaxWorkers == Len(judges)

\* judge_document up to the submission of one future per judge.
JudgeDocument(po) ==
    /\ panel = "ready"
    /\ pc = "idle"
    /\ provider_outputs' = po
    /\ futures' = [v \in VariantSet |-> IF v \in JudgeSet THEN Pending ELSE NotSubmitted]
    /\ yielded' = {}
    /\ results' = <<>>
    /\ failed' = {}
    /\ pc' = "collecting"
    /\ UNCHANGED <<api_keys, panel, judges, ctor_calls, warned, api_calls, panel_result,
                   pure>>

\* A prompt builder that consumes the events as it lists them: every provider
\* is left with no events.
JudgeStartConsuming(v) ==
    /\ futures[v] = Pending
    /\ Cardinality({u \in VariantSet : futures[u] = Running}) < MaxWorkers
    /\ futures' = [futures EXCEPT ![v] = Running]
    /\ api_calls' = [api_calls EXCEPT ![v] = @ + 1]
    /\ provider_outputs' =
           [i \in 1..Len(provider_outputs) |-> [k |-> provider_outputs[i].k, v |-> <<>>]]
    /\ UNCHANGED <<api_keys, panel, judges, ctor_calls, warned, pc, yielded, results,
                   failed, panel_result, pure>>

\* A worker thread of the pool takes a submitted call and enters judge_providers,
\* which makes the remote call.
JudgeStart(v) ==
    /\ futures[v] = Pending
    /\ Cardinality({u \in VariantSet : futures[u] = Running}) < MaxWorkers
    /\ futures' = [futures EXCEPT ![v] = Running]
    /\ api_calls' = [api_calls EXCEPT ![v] = @ + 1]
    /\ UNCHANGED <<api_keys, panel, judges, ctor_calls, warned, pc, provider_outputs,
                   yielded, results, failed, panel_result, pure>>

\* The judge_providers call of judge v ends on the response of its API: it
\* returns a JudgeResult or raises.
JudgeFinish(v) ==
    /\ futures[v] = Running
    /\ \E response \in Responses[v] :
       \E out \in {JudgeProviders(v, DocumentName, provider_outputs, response)} :
           futures' = [futures EXCEPT ![v] = FutureOf(out)]
    /\ UNCHANGED <<api_keys, panel, judges, ctor_calls, warned, api_calls, pc,
                   provider_outputs, yielded, results, failed, panel_result, pure>>

\* A round of the loop without the try/except: future.result() re-raises the
\* judge's exception and it leaves judge_document.
CollectOrPropagate(v) ==
    /\ pc = "collecting"
    /\ v \notin yielded
    /\ IsDone(futures[v])
    /\ yielded' = yielded \cup {v}
    /\ IF futures[v].state = "returned"
       THEN /\ results' = DictSet(results, futures[v].result.judge_name, futures[v].result)
            /\ pc' = pc
       ELSE /\ results' = results
            /\ pc' = "raised"
    /\ UNCHANGED <<api_keys, panel, judges, ctor_calls, warned, api_calls, provider_outputs,
                   futures, failed, panel_result, pure>>

\* A round of the loop that retries: the call of a judge that raised is
\* submitted again instead of being logged and dropped.
CollectRetrying(v) ==
    /\ pc = "collecting"
    /\ v \notin yielded
    /\ IsDone(futures[v])
    /\ IF futures[v].state = "returned"
       THEN /\ results' = DictSet(results, futures[v].result.judge_name, futures[v].result)
            /\ yielded' = yielded \cup {v}
            /\ futures' = futures
       ELSE /\ results' = results
            /\ yielded' = yielded
            /\ futures' = [futures EXCEPT ![v] = Pending]
    /\ UNCHANGED <<api_keys, panel, judges, ctor_calls, warned, api_calls, pc,
                   provider_outputs, failed, panel_result, pure>>

\* One round of the as_completed loop: a finished future is yielded; its result is
\* stored under its judge_name, or its exception is logged and dropped.
Collect(v) ==
    /\ pc = "collecting"
    /\ v \notin yielded
    /\ IsDone(futures[v])
    /\ yielded' = yielded \cup {v}
    /\ IF futures[v].state = "returned"
       THEN /\ results' = DictSet(results, futures[v].result.judge_name, futures[v].result)
            /\ failed' = failed
       ELSE /\ results' = results
            /\ failed' = failed \cup {v}
    /\ UNCHANGED <<api_keys, panel, judges, ctor_calls, warned, api_calls, pc,
                   provider_outputs, futures, panel_result, pure>>

\* A race to the first result: one future has been yielded.
AnyYielded == yielded # {}

\* A join that is over only when every judge has delivered a result.
AllReturned == \A v \in JudgeSet : v \in yielded /\ futures[v].state = "returned"

\* as_completed is exhausted: every submitted future has been yielded.
AllYielded == yielded = JudgeSet

\* _run_judges_parallel returns and judge_document reduces the results.
Aggregate ==
    /\ pc = "collecting"
    /\ AllYielded
    /\ \E out \in {BuildPanelResult(DocumentName, provider_outputs, results)} :
           IF out.raised
           THEN pc' = "raised" /\ panel_result' = NoResult
           ELSE pc' = "returned" /\ panel_result' = out.value
    /\ UNCHANGED <<api_keys, panel, judges, ctor_calls, warned, api_calls,
                   provider_outputs, futures, yielded, results, failed, pure>>

Next ==
    \/ \E ctor_ok \in [VariantSet -> BOOLEAN] : Construct(ctor_ok)
    \/ \E po \in ProviderOutputsChoices : JudgeDocument(po)
    \/ \E v \in VariantSet : JudgeStart(v)
    \/ \E v \in VariantSet : JudgeFinish(v)
    \/ \E v \in VariantSet : Collect(v)
    \/ Aggregate

Spec == Init /\ [][Next]_vars

\* ------------------------------------------------------------ a hung judge
\* The panel with its scheduling: the constructor and judge_document run to
\* their end, the pool's worker threads take the submitted calls, as_completed
\* yields every finished future, and the remote call of every judge but one
\* comes back.  The remote call of HungJudge may never come back: the code sets
\* no timeout on the call, on as_completed or on future.result().
HungJudge == Variants[Len(Variants)]

SpecHang ==
    /\ Spec
    /\ WF_vars(\E ctor_ok \in [VariantSet -> BOOLEAN] : Construct(ctor_ok))
    /\ WF_vars(\E po \in ProviderOutputsChoices : JudgeDocument(po))
    /\ \A v \in VariantSet : WF_vars(JudgeStart(v))
    /\ \A v \in VariantSet \ {HungJudge} : WF_vars(JudgeFinish(v))
    /\ \A v \in VariantSet : WF_vars(Collect(v))
    /\ WF_vars(Aggregate)

\* judge_document leaves the collecting loop: within Spec this is the step
\* Aggregate, which can be taken whenever as_completed is exhausted.
LeaveLoop ==
    /\ pc = "collecting"
    /\ AllYielded
    /\ pc' \in {"returned", "raised"}

\* The panel with its scheduling, every judge's remote call coming back: the
\* constructor and judge_document run to their end, the pool's worker threads
\* take the submitted calls, the call of every judge returns or raises,
\* as_completed yields every finished future, and a judge_document whose loop is
\* exhausted goes on to the reduction.
SpecLive ==
    /\ Spec
    /\ WF_vars(\E ctor_ok \in [VariantSet -> BOOLEAN] : Construct(ctor_ok))
    /\ WF_vars(\E po \in ProviderOutputsChoices : JudgeDocument(po))
    /\ \A v \in VariantSet : WF_vars(JudgeStart(v))
    /\ \A v \in VariantSet : WF_vars(JudgeFinish(v))
    /\ \A v \in VariantSet : WF_vars(Collect(v))
    /\ WF_pc(LeaveLoop)

\* judge_document from the return of _run_judges_parallel on: the reduction of
\* the collected results to a PanelResult, applied to every results dict that
\* _run_judges_parallel can return for a panel of 2 or 3 judges, in every
\* order of completion.
Panels == {js \in {SelectSeq(Variants, LAMBDA v : v \in S) : S \in SUBSET VariantSet} :
              EnoughJudges(js)}

\* The states the future of judge v can end in.
Outcomes(v, po) ==
    {FutureOf(JudgeProviders(v, DocumentName, po, response)) : response \in Responses[v]}

OutcomesOf == [po \in ProviderOutputsChoices |-> [v \in VariantSet |-> Outcomes(v, po)]]

\* The orders the judges of S can complete in.
Orders(S) ==
    {o \in [1..Cardinality(S) -> S] : \A i, j \in 1..Cardinality(S) : i # j => o[i] # o[j]}

\* The results dict the loop of _run_judges_parallel builds when the futures fs
\* are yielded in the order o.
Collected(fs, o) ==
    [i \in 1..Len(o) |-> [k |-> fs[o[i]].result.judge_name, v |-> fs[o[i]].result]]

InitReduce ==
    /\ judges \in Panels
    /\ api_keys = [v \in VariantSet |-> v \in SeqToSet(judges)]
    /\ panel = "ready"
    /\ ctor_calls = SeqToSet(judges)
    /\ warned = {}
    /\ api_calls = [v \in VariantSet |-> IF v \in SeqToSet(judges) THEN 1 ELSE 0]
    /\ pc = "collecting"
    /\ provider_outputs \in ProviderOutputsChoices
    /\ futures \in {fs \in [VariantSet -> UNION {OutcomesOf[provider_outputs][v] : v \in VariantSet}
                                           \cup {NotSubmitted}] :
                       \A v \in VariantSet :
                           IF v \in SeqToSet(judges)
                           THEN fs[v] \in OutcomesOf[provider_outputs][v]
                           ELSE fs[v] = NotSubmitted}
    /\ yielded = SeqToSet(judges)
    /\ failed = {v \in yielded : futures[v].state = "raised"}
    /\ results \in {Collected(futures, o) :
                        o \in Orders({v \in yielded : futures[v].state = "returned"})}
    /\ panel_result = NoResult
    /\ call = NoCall
    /\ value = NoResult
    /\ SideIdle

SpecReduce == InitReduce /\ [][Aggregate]_vars

\* ------------------------------------------------------------ the vote count
\* The winner determination and the winner consensus percentage applied on
\* their own to every results dict _run_judges_parallel can return: lines 164
\* and 311-319 of the reduction, without the scores.
TallyOf(individual_results) ==
    LET won == DetermineConsensusWinner(individual_results)
    IN  IF won.raised THEN [raised |-> TRUE]
        ELSE [raised |-> FALSE,
              individual_results |-> individual_results,
              consensus_winner |-> won.consensus_winner,
              winner_votes |-> won.winner_votes,
              winner_consensus_percentage |-> WinnerConsensusPct(individual_results)]

ApplyTally ==
    /\ pc = "collecting"
    /\ AllYielded
    /\ value = NoResult
    /\ value' = TallyOf(results)
    /\ UNCHANGED <<api_keys, panel, judges, ctor_calls, warned, api_calls, pc,
                   provider_outputs, futures, yielded, results, failed, panel_result, call, side>>

SpecTally == InitReduce /\ [][ApplyTally]_vars

\* ------------------------------------------------------------ the agreement
\* _calculate_agreement applied on its own to every results dict
\* _run_judges_parallel can return, with no consensus scores to copy the
\* spreads from: the pairwise correlations, their average, the winner consensus
\* percentage and the confidence level.
AgreementAlone(individual_results) ==
    [individual_results |-> individual_results,
     agreement |-> CalculateAgreement(individual_results, <<>>)]

ApplyAgreement ==
    /\ pc = "collecting"
    /\ AllYielded
    /\ value = NoResult
    /\ value' = AgreementAlone(results)
    /\ UNCHANGED <<api_keys, panel, judges, ctor_calls, warned, api_calls, pc,
                   provider_outputs, futures, yielded, results, failed, panel_result, call, side>>

SpecAgreement == InitReduce /\ [][ApplyAgreement]_vars

\* ---------------------------------------------------------- the correlation
\* _pearson_correlation applied on its own to every pair of score vectors of at
\* most MaxVector values: vectors of different lengths, empty and one-value
\* vectors, constant vectors and vectors that vary.
MaxVector == 3

ScoreValues == {FromInt(0), FromInt(5), Rat(15, 2), FromInt(10)}

Vectors == UNION {[1..n -> ScoreValues] : n \in 0..MaxVector}

InitPearson ==
    /\ api_keys = [v \in VariantSet |-> TRUE]
    /\ Unconstructed
    /\ call \in [x : Vectors, y : Vectors]
    /\ value = NoResult
    /\ SideIdle

ApplyPearson ==
    /\ call # NoCall
    /\ value = NoResult
    /\ value' = PearsonCall(call.x, call.y)
    /\ UNCHANGED <<api_keys, panel, judges, ctor_calls, warned, api_calls, pc,
                   provider_outputs, futures, yielded, results, failed, panel_result, call, side>>

SpecPearson == InitPearson /\ [][ApplyPearson]_vars

\* ------------------------------------------------- one judge object, shared
\* One judge object on which two judge_providers calls run at once, one per
\* document.  _call_api leaves the cost and the thinking tokens of the call in
\* attributes of the object, and judge_providers reads them back after it has
\* parsed the response.  The threads interleave between those steps.
Callers == {1, 2}

\* The token usage the API reports for the call of caller t.
SharedUsage(t) ==
    [input_tokens |-> 1000 * t, output_tokens |-> 200 * t,
     reasoning_tokens |-> 64 * t, thinking_words |-> 10 * t]

\* An attribute that has never been assigned.
Unset == [unset |-> TRUE]

\* getattr(self, name, default).
GetAttr(object, name, default) == IF object[name] = Unset THEN default ELSE object[name]

\* The attributes _call_api assigns, in the order it assigns them.
WriteOrder(v) ==
    CASE v = "GPT5Judge" -> <<"_last_reasoning_tokens", "_last_cost">>
      [] v = "ClaudeOpusJudge" -> <<"_last_cost", "_last_thinking_tokens">>
      [] v = "GeminiProJudge" -> <<"_last_cost">>

\* The value _call_api assigns to an attribute after a call that used `usage`.
AttrValue(v, name, usage) ==
    IF name = "_last_cost" THEN CallCost(v, usage) ELSE CallThinkingTokens(v, usage)

\* The attribute judge_providers reads the thinking tokens from: the Gemini
\* judge reads none and reports 0.
TokensAttr(v) ==
    CASE v = "GPT5Judge" -> "_last_reasoning_tokens"
      [] v = "ClaudeOpusJudge" -> "_last_thinking_tokens"
      [] v = "GeminiProJudge" -> "none"

AttrNames == {"_last_cost", "_last_reasoning_tokens", "_last_thinking_tokens"}

InitShared ==
    /\ api_keys = [v \in VariantSet |-> TRUE]
    /\ Unconstructed
    /\ call = NoCall
    /\ value = NoResult
    /\ \E v \in VariantSet :
           attrs = [variant |-> v, fields |-> [name \in AttrNames |-> Unset]]
    /\ threads = [t \in Callers |->
                     [pc |-> "idle", written |-> 0, thinking_tokens |-> Unset, cost |-> Unset]]
    /\ run_status = "none"
    /\ documents = 0
    /\ queue = 0
    /\ requests = <<>>
    /\ worker = <<>>

SharedFrame ==
    UNCHANGED <<api_keys, panel, judges, ctor_calls, warned, api_calls, pc, provider_outputs,
                futures, yielded, results, failed, panel_result, call, value,
                run_status, documents, queue, requests, worker>>

\* judge_providers is called: it builds the prompt and enters _call_api.
SharedEnter(t) ==
    /\ threads[t].pc = "idle"
    /\ threads' = [threads EXCEPT ![t].pc = "calling"]
    /\ attrs' = attrs
    /\ SharedFrame

\* The remote call raises: _call_api logs and re-raises, no attribute is set.
SharedApiRaise(t) ==
    /\ threads[t].pc = "calling"
    /\ threads' = [threads EXCEPT ![t].pc = "raised"]
    /\ attrs' = attrs
    /\ SharedFrame

\* The remote call returns its response.
SharedApiReturn(t) ==
    /\ threads[t].pc = "calling"
    /\ threads' = [threads EXCEPT ![t].pc = "storing"]
    /\ attrs' = attrs
    /\ SharedFrame

\* _call_api assigns its next attribute from the usage of this call; after the
\* last one it returns the response text.
SharedStore(t) ==
    /\ threads[t].pc = "storing"
    /\ \E name \in {WriteOrder(attrs.variant)[threads[t].written + 1]} :
           attrs' = [attrs EXCEPT !.fields[name] =
                        AttrValue(attrs.variant, name, SharedUsage(t))]
    /\ threads' = [threads EXCEPT
                      ![t].written = @ + 1,
                      ![t].pc = IF threads[t].written + 1 = Len(WriteOrder(attrs.variant))
                                THEN "parsing" ELSE "storing"]
    /\ SharedFrame

\* judge_providers parses the response and reads the thinking tokens back.
SharedReadTokens(t) ==
    /\ threads[t].pc = "parsing"
    /\ threads' = [threads EXCEPT
                      ![t].thinking_tokens =
                          IF TokensAttr(attrs.variant) = "none" THEN Zero
                          ELSE GetAttr(attrs.fields, TokensAttr(attrs.variant), Zero),
                      ![t].pc = "scoring"]
    /\ attrs' = attrs
    /\ SharedFrame

\* judge_providers builds the ProviderScores, reads the cost back and returns
\* its JudgeResult.
SharedReadCost(t) ==
    /\ threads[t].pc = "scoring"
    /\ threads' = [threads EXCEPT
                      ![t].cost = GetAttr(attrs.fields, "_last_cost", Zero),
                      ![t].pc = "returned"]
    /\ attrs' = attrs
    /\ SharedFrame

NextShared ==
    \E t \in Callers :
        \/ SharedEnter(t)
        \/ SharedApiRaise(t)
        \/ SharedApiReturn(t)
        \/ SharedStore(t)
        \/ SharedReadTokens(t)
        \/ SharedReadCost(t)

SpecShared == InitShared /\ [][NextShared]_vars

\* ---------------------------------------------------------------- start_run
\* PUT /v1/runs/{run_id}/start on one run, sent twice.  Each request is served
\* by one API server process with a database session of its own; the run, its
\* documents and the job queue are shared by the processes.
MaxFiles == 2

StartRequests == {1, 2}
ApiProcesses == {1, 2}

\* RunStatus, and "none" for a run_id that has no row.
RunStatuses == {"queued", "processing", "partial", "success", "failed"}

\* The positions of start_run between its first statement and its last.
InHandler == {"queried", "checked", "added", "committed"}

\* start_run is a coroutine without an await: the event loop of a process runs
\* the body of one request to its end before it runs the body of another.
LoopRuns(r) ==
    \A q \in StartRequests \ {r} :
        requests[q].process = requests[r].process => requests[q].pc \notin InHandler

InitStart ==
    /\ api_keys = [v \in VariantSet |-> TRUE]
    /\ Unconstructed
    /\ call = NoCall
    /\ value = NoResult
    /\ attrs = <<>>
    /\ threads = <<>>
    /\ run_status \in RunStatuses \cup {"none"}
    /\ documents = 0
    /\ queue = 0
    /\ requests \in {[r \in StartRequests |->
                         [pc |-> "pending", process |-> process[r], files |-> files[r],
                          seen |-> "none"]] :
                        process \in [StartRequests -> ApiProcesses],
                        files \in [StartRequests -> 1..MaxFiles]}
    /\ worker = <<>>

StartFrame ==
    UNCHANGED <<api_keys, panel, judges, ctor_calls, warned, api_calls, pc, provider_outputs,
                futures, yielded, results, failed, panel_result, call, value,
                attrs, threads, worker>>

\* run = db.query(Run).filter(Run.id == run_id).first(): the session loads the
\* committed row; no row is a 404.
StartRunQuery(r) ==
    /\ requests[r].pc = "pending"
    /\ LoopRuns(r)
    /\ requests' = [requests EXCEPT
                       ![r].seen = run_status,
                       ![r].pc = IF run_status = "none" THEN "not_found" ELSE "queried"]
    /\ UNCHANGED <<run_status, documents, queue>>
    /\ StartFrame

\* if run.status != RunStatus.QUEUED: raise HTTPException(400), on the status
\* the session loaded.
StartRunCheck(r) ==
    /\ requests[r].pc = "queried"
    /\ LoopRuns(r)
    /\ requests' = [requests EXCEPT
                       ![r].pc = IF requests[r].seen # "queued" THEN "rejected" ELSE "checked"]
    /\ UNCHANGED <<run_status, documents, queue>>
    /\ StartFrame

\* The loop of db.add(doc) over manifest.files and run.status = PROCESSING:
\* pending in the session until the commit.
StartRunAdd(r) ==
    /\ requests[r].pc = "checked"
    /\ LoopRuns(r)
    /\ requests' = [requests EXCEPT ![r].pc = "added"]
    /\ UNCHANGED <<run_status, documents, queue>>
    /\ StartFrame

\* db.commit(): the documents are inserted and the status is updated, whatever
\* the row holds by now.
StartRunCommit(r) ==
    /\ requests[r].pc = "added"
    /\ LoopRuns(r)
    /\ documents' = documents + requests[r].files
    /\ run_status' = "processing"
    /\ requests' = [requests EXCEPT ![r].pc = "committed"]
    /\ UNCHANGED queue
    /\ StartFrame

\* enqueue_job("process_run", ...): the job is put on the queue and the request
\* is answered "accepted".
StartRunEnqueue(r) ==
    /\ requests[r].pc = "committed"
    /\ LoopRuns(r)
    /\ queue' = queue + 1
    /\ requests' = [requests EXCEPT ![r].pc = "accepted"]
    /\ UNCHANGED <<run_status, documents>>
    /\ StartFrame

\* enqueue_job raises (the queue cannot be reached): it logs and re-raises, and
\* the request fails after its commit.
StartRunEnqueueRaises(r) ==
    /\ requests[r].pc = "committed"
    /\ LoopRuns(r)
    /\ requests' = [requests EXCEPT ![r].pc = "enqueue_failed"]
    /\ UNCHANGED <<run_status, documents, queue>>
    /\ StartFrame

NextStart ==
    \E r \in StartRequests :
        \/ StartRunQuery(r)
        \/ StartRunCheck(r)
        \/ StartRunAdd(r)
        \/ StartRunCommit(r)
        \/ StartRunEnqueue(r)
        \/ StartRunEnqueueRaises(r)

SpecStart == InitStart /\ [][NextStart]_vars

\* -------------------------------------------------------------- process_run
\* The worker's job on a run that start_run has started: the documents are
\* processed one after the other, each succeeding or failing, the final status
\* is committed and the artifacts are generated.
MaxDocs == 4

\* The final status of lines 172-177.
FinalStatus(processed, total_docs) ==
    IF processed = total_docs THEN "success"
    ELSE IF processed > 0 THEN "partial"
    ELSE "failed"

InitProcess ==
    /\ api_keys = [v \in VariantSet |-> TRUE]
    /\ Unconstructed
    /\ call = NoCall
    /\ value = NoResult
    /\ attrs = <<>>
    /\ threads = <<>>
    /\ run_status = "processing"
    /\ documents \in 0..MaxDocs
    /\ queue = 1
    /\ requests = <<>>
    /\ worker = [pc |-> "queued", docs |-> <<>>, total_docs |-> 0]

ProcessFrame ==
    UNCHANGED <<api_keys, panel, judges, ctor_calls, warned, api_calls, pc, provider_outputs,
                futures, yielded, results, failed, panel_result, call, value,
                attrs, threads, requests, documents>>

\* The number of documents processed so far with success.
Processed == Cardinality({i \in 1..Len(worker.docs) : worker.docs[i] = "success"})

\* The worker takes the job: the run is loaded, its status set to PROCESSING
\* and committed, and its pending documents are queried.
ProcessRunBegin ==
    /\ worker.pc = "queued"
    /\ queue > 0
    /\ queue' = queue - 1
    /\ run_status' = "processing"
    /\ worker' = [worker EXCEPT !.pc = "setup", !.total_docs = documents]
    /\ ProcessFrame

\* The pipeline is initialised, or its constructor raises.
ProcessRunSetup(ok) ==
    /\ worker.pc = "setup"
    /\ worker' = [worker EXCEPT !.pc = IF ok THEN "documents" ELSE "handling"]
    /\ UNCHANGED <<run_status, queue>>
    /\ ProcessFrame

\* One round of the loop over the documents: the document is processed, or an
\* exception marks it failed; either way the round commits.
ProcessDocument(ok) ==
    /\ worker.pc = "documents"
    /\ Len(worker.docs) < worker.total_docs
    /\ worker' = [worker EXCEPT !.docs = Append(@, IF ok THEN "success" ELSE "failed")]
    /\ UNCHANGED <<run_status, queue>>
    /\ ProcessFrame

\* After the loop: run.status = final_status and db.commit().
ProcessRunFinalize ==
    /\ worker.pc = "documents"
    /\ Len(worker.docs) = worker.total_docs
    /\ run_status' = FinalStatus(Processed, worker.total_docs)
    /\ worker' = [worker EXCEPT !.pc = "finalized"]
    /\ UNCHANGED queue
    /\ ProcessFrame

\* generate_artifacts(run_id) returns and process_run returns its summary, or
\* generate_artifacts re-raises what went wrong.
GenerateArtifacts(ok) ==
    /\ worker.pc = "finalized"
    /\ worker' = [worker EXCEPT !.pc = IF ok THEN "returned" ELSE "handling"]
    /\ UNCHANGED <<run_status, queue>>
    /\ ProcessFrame

\* except Exception: the run is loaded again, its status set to FAILED and
\* committed, and the exception is re-raised.
ProcessRunExcept ==
    /\ worker.pc = "handling"
    /\ run_status' = "failed"
    /\ worker' = [worker EXCEPT !.pc = "raised"]
    /\ UNCHANGED queue
    /\ ProcessFrame

NextProcess ==
    \/ ProcessRunBegin
    \/ \E ok \in BOOLEAN : ProcessRunSetup(ok)
    \/ \E ok \in BOOLEAN : ProcessDocument(ok)
    \/ ProcessRunFinalize
    \/ \E ok \in BOOLEAN : GenerateArtifacts(ok)
    \/ ProcessRunExcept

SpecProcess == InitProcess /\ [][NextProcess]_vars

\* ------------------------------------------------ the confidence thresholds
\* The thresholds of _calculate_agreement applied on their own, to an
\* average_correlation on a grid of [-1, 1] and to the percentages that c of n
\* judges agreeing with the first give, for a panel of 1 to 3 judges.
CorrelationSteps == 20

AverageCorrelations ==
    {Rat(k, CorrelationSteps) : k \in (-CorrelationSteps)..CorrelationSteps}

ConsensusPercentages ==
    UNION {{Rat(c * 100, n) : c \in 1..n} : n \in 1..Len(Variants)}

InitConfidence ==
    /\ api_keys = [v \in VariantSet |-> TRUE]
    /\ Unconstructed
    /\ call \in [average_correlation : AverageCorrelations,
                  winner_consensus_pct : ConsensusPercentages]
    /\ value = NoResult
    /\ SideIdle

\* Lines 321-327 of _calculate_agreement.
ApplyConfidence ==
    /\ call # NoCall
    /\ value = NoResult
    /\ value' = [confidence_level |->
                    ConfidenceLevel(call.average_correlation, call.winner_consensus_pct)]
    /\ UNCHANGED <<api_keys, panel, judges, ctor_calls, warned, api_calls, pc,
                   provider_outputs, futures, yielded, results, failed, panel_result, call, side>>

SpecConfidence == InitConfidence /\ [][ApplyConfidence]_vars

\* ------------------------------------------------------- one judge on its own
\* judge_providers applied on its own to every response an API can give: an
\* API-level exception, a text that is not JSON, and JSON objects with or
\* without the "providers" and "winner" fields, whose entries name a provider
\* of provider_outputs or an unknown one and may lack one of the entry fields.
WinnerChoices == ProviderNames \cup {"absent"}

\* Entry(v, p) without the field named missing ("none": no field is missing).
EntryWithout(v, p, missing) ==
    [f \in EntryFields \ {missing} |-> Entry(v, p)[f]]

\* The "providers" arrays of at most n entries.
RECURSIVE EntryLists(_, _)
EntryLists(v, n) ==
    IF n = 0 THEN {<<>>}
    ELSE EntryLists(v, n - 1) \cup
         {Append(l, EntryWithout(v, p, m)) :
             l \in {x \in EntryLists(v, n - 1) : Len(x) = n - 1},
             p \in ResponseNames, m \in EntryFields \cup {"none"}}

\* A JSON object with the given "providers" array, if it has that field at
\* all, and the given "winner" ("absent": no such field).
Body(has_providers, providers, winner) ==
    [f \in (IF has_providers THEN {"providers"} ELSE {}) \cup
            (IF winner = "absent" THEN {} ELSE {"winner"}) |->
        IF f = "providers" THEN providers ELSE winner]

JudgeResponses(v) ==
    {[status |-> "api_error"], [status |-> "not_json"]} \cup
    {[status |-> "json", body |-> Body(TRUE, l, w), usage |-> UsageOf(v)] :
        l \in EntryLists(v, MaxScores), w \in WinnerChoices} \cup
    {[status |-> "json", body |-> Body(FALSE, <<>>, w), usage |-> UsageOf(v)] :
        w \in WinnerChoices}

InitJudge ==
    /\ api_keys = [v \in VariantSet |-> TRUE]
    /\ Unconstructed
    /\ call \in UNION {[variant : {v}, provider_outputs : ProviderOutputsChoices,
                         response : JudgeResponses(v)] : v \in VariantSet}
    /\ value = NoResult
    /\ SideIdle

\* One judge_providers call, from the prompt to the return or the exception.
ApplyJudge ==
    /\ call # NoCall
    /\ value = NoResult
    /\ value' = JudgeProviders(call.variant, DocumentName, call.provider_outputs,
                               call.response)
    /\ UNCHANGED <<api_keys, panel, judges, ctor_calls, warned, api_calls, pc,
                   provider_outputs, futures, yielded, results, failed, panel_result, call, side>>

SpecJudge == InitJudge /\ [][ApplyJudge]_vars

\* ------------------------------------------------------------------- claims
\* The judge_document call is over: it returned a PanelResult or raised.
CallOver == pc \in {"returned", "raised"}

\* The judges whose judge_providers call returned a JudgeResult, or raised.
ReturnedJudges == {v \in JudgeSet : futures[v].state = "returned"}
RaisedJudges == {v \in JudgeSet : futures[v].state = "raised"}

\* C1: when a judge_document call is over in which some judge's judge_providers
\* raised and another judge's returned, the call has returned a PanelResult, and
\* its individual_results holds the JudgeResult of every judge that returned
\* under that judge's name and nothing under the name of a judge that raised.
C1_FailureIsolation ==
    (CallOver /\ RaisedJudges # {} /\ ReturnedJudges # {}) =>
        /\ pc = "returned"
        /\ \A v \in ReturnedJudges :
               /\ DictHas(panel_result.individual_results, JudgeName(v))
               /\ DictGet(panel_result.individual_results, JudgeName(v)) = futures[v].result
        /\ \A v \in RaisedJudges :
               ~DictHas(panel_result.individual_results, JudgeName(v))

\* A call of three judges has returned after one judge raised.
C1_Witness ==
    /\ pc = "returned"
    /\ Cardinality(RaisedJudges) = 1
    /\ Len(panel_result.individual_results) = 2

C3_Barrier ==
    (CallOver \/ panel_result # NoResult) =>
        \A v \in JudgeSet : IsDone(futures[v]) /\ v \in yielded

\* A call of three judges is over, and one of the three had raised.
C3_Witness ==
    /\ CallOver
    /\ Len(judges) = 3
    /\ failed # {}
    /\ yielded = VariantSet

\* C4: once __init__ has run, self.judges holds, in order, the variants whose
\* credential is present and whose constructor did not raise; construction
\* raised when fewer than 2 were initialized and succeeded when 2 or 3 were;
\* with no credential at all it raised, no constructor was called, and no
\* remote call is ever made.
C4_Construction ==
    panel # "unconstructed" =>
        /\ ctor_calls = {v \in VariantSet : api_keys[v]}
        /\ judges = SelectSeq(Variants, LAMBDA v : api_keys[v] /\ v \notin warned)
        /\ (Len(judges) < 2 => panel = "config_error")
        /\ (Len(judges) \in {2, 3} => panel = "ready")
        /\ (panel = "config_error" =>
               pc = "idle" /\ \A v \in VariantSet : api_calls[v] = 0)
        /\ ((\A v \in VariantSet : ~api_keys[v]) =>
               panel = "config_error" /\ ctor_calls = {} /\ judges = <<>>)

\* Construction raised with two credentials present: one constructor failed.
C4_Witness ==
    /\ panel = "config_error"
    /\ Cardinality(ctor_calls) = 2
    /\ Len(judges) = 1

\* The results of a call as they would stand had the judges completed in the
\* order they were submitted in.
InSubmissionOrder(individual_results) ==
    LET present == SelectSeq(Variants, LAMBDA v : DictHas(individual_results, JudgeName(v)))
    IN  [i \in 1..Len(present) |->
            [k |-> JudgeName(present[i]),
             v |-> DictGet(individual_results, JudgeName(present[i]))]]

\* A tally as a set of (provider, count) pairs.
VotesAsSet(winner_votes) == {<<winner_votes[i].k, winner_votes[i].v>> : i \in 1..Len(winner_votes)}

\* One provider has more votes than every other.
UniquePlurality(winner_votes) ==
    \E i \in 1..Len(winner_votes) :
        \A j \in 1..Len(winner_votes) : j # i => winner_votes[j].v < winner_votes[i].v

\* All the results name one winner.
Unanimous(individual_results) ==
    \A i \in 1..Len(individual_results) :
        individual_results[i].v.winner = individual_results[1].v.winner

Evaluated == SeqToSet(DictKeys(provider_outputs))

\* Judge v returned a JudgeResult that scores provider p.
Scored(v, p) ==
    /\ v \in ReturnedJudges
    /\ \E i \in 1..Len(futures[v].result.provider_scores) :
           futures[v].result.provider_scores[i].provider = p

\* The ProviderScore judge v gave provider p: the first, had it given several.
ScoreBy(v, p) ==
    LET scores == futures[v].result.provider_scores
    IN  scores[CHOOSE i \in 1..Len(scores) :
                   /\ scores[i].provider = p
                   /\ \A j \in 1..(i - 1) : scores[j].provider # p]

\* One ProviderScore for p per judge that scored p.
OnePerJudge(p) ==
    LET scoring == SelectSeq(Variants, LAMBDA v : Scored(v, p))
    IN  [i \in 1..Len(scoring) |-> ScoreBy(scoring[i], p)]

\* C6 as stated: for every provider of provider_outputs that at least one
\* successful judge scored, each criterion of its ConsensusScore is the median
\* of one value per judge that scored it.
C6_MedianOfJudges ==
    pc = "returned" =>
        \A p \in Evaluated :
            OnePerJudge(p) # <<>> =>
                /\ DictHas(panel_result.consensus_scores, p)
                /\ \A c \in SeqToSet(Criteria) :
                       DictGet(panel_result.consensus_scores, p)[c] =
                           Median(Column(OnePerJudge(p), c))

\* C7: winner_votes has one entry for each provider some successful judge
\* named as winner and no other, its count the number of successful judges
\* that named it; consensus_winner is a key of winner_votes whose count no
\* other count exceeds.
C7_WinnerTally ==
    pc = "returned" =>
        LET votes == panel_result.winner_votes
        IN  /\ SeqToSet(DictKeys(votes)) = {futures[v].result.winner : v \in ReturnedJudges}
            /\ Cardinality(SeqToSet(DictKeys(votes))) = Len(votes)
            /\ \A i \in 1..Len(votes) :
                   votes[i].v =
                       Cardinality({v \in ReturnedJudges : futures[v].result.winner = votes[i].k})
            /\ DictHas(votes, panel_result.consensus_winner)
            /\ \A i \in 1..Len(votes) :
                   votes[i].v <= DictGet(votes, panel_result.consensus_winner)

\* Three judges voted 1 to 2, and the first to complete was in the minority.
C7_Witness ==
    /\ pc = "returned"
    /\ Len(panel_result.individual_results) = 3
    /\ VotesAsSet(panel_result.winner_votes) = {<<"A", 2>>, <<"B", 1>>}
    /\ panel_result.individual_results[1].v.winner = "B"
    /\ panel_result.consensus_winner = "A"

\* C8: the confidence level returned for an average_correlation and a
\* winner_consensus_percentage is HIGH exactly when the correlation is at
\* least 0.8 and the percentage is 100, MEDIUM exactly when it is not HIGH and
\* the correlation is at least 0.6 and the percentage at least 67, and LOW
\* exactly when it is neither; a correlation below 0.6 gives LOW.
C8_ConfidenceThresholds ==
    value # NoResult =>
        LET high == /\ RGe(call.average_correlation, Rat(4, 5))
                    /\ call.winner_consensus_pct = FromInt(100)
            medium == /\ RGe(call.average_correlation, Rat(3, 5))
                      /\ RGe(call.winner_consensus_pct, FromInt(67))
        IN  /\ value.confidence_level \in {"HIGH", "MEDIUM", "LOW"}
            /\ (value.confidence_level = "HIGH") <=> high
            /\ (value.confidence_level = "MEDIUM") <=> (~high /\ medium)
            /\ (value.confidence_level = "LOW") <=> (~high /\ ~medium)
            /\ RLt(call.average_correlation, Rat(3, 5)) => value.confidence_level = "LOW"

\* A correlation of 0.65 with every judge agreeing gave MEDIUM.
C8_Witness ==
    /\ value # NoResult
    /\ call.average_correlation = Rat(13, 20)
    /\ call.winner_consensus_pct = FromInt(100)
    /\ value.confidence_level = "MEDIUM"

\* C9: the keys of consensus_scores are the providers of provider_outputs that
\* at least one successful judge scored, no more and no fewer, each once.
C9_ConsensusKeys ==
    pc = "returned" =>
        /\ SeqToSet(DictKeys(panel_result.consensus_scores)) =
               {p \in Evaluated : \E v \in JudgeSet : Scored(v, p)}
        /\ Cardinality(SeqToSet(DictKeys(panel_result.consensus_scores))) =
               Len(panel_result.consensus_scores)

\* A call returned with provider A scored, provider B scored by nobody, and a
\* judge scoring a name X that provider_outputs does not hold.
C9_Witness ==
    /\ pc = "returned"
    /\ \E v \in JudgeSet : Scored(v, "X")
    /\ \E v \in JudgeSet : Scored(v, "A")
    /\ "B" \in Evaluated
    /\ DictKeys(panel_result.consensus_scores) = <<"A">>

\* C10 as stated: for every provider of consensus_scores and every criterion,
\* score_variance is 0.0 when one judge scored the provider and the sample
\* standard deviation of one value per scoring judge when two or more did.
C10_SpreadOfJudges ==
    pc = "returned" =>
        \A i \in 1..Len(panel_result.consensus_scores) :
            LET p == panel_result.consensus_scores[i].k
                spread == panel_result.consensus_scores[i].v.score_variance
            IN  \A c \in SeqToSet(Criteria) :
                    spread[c] =
                        IF Len(OnePerJudge(p)) = 1 THEN Sqrt(Zero)
                        ELSE Stdev(Column(OnePerJudge(p), c))

\* A judge_providers call applied on its own is over.
JudgeCalled == call # NoCall /\ "response" \in DOMAIN call /\ value # NoResult

\* The response lacks a required field of the schema: a top-level "providers"
\* or "winner", or a field of an entry.
LacksField(response) ==
    \/ "providers" \notin DOMAIN response.body
    \/ "winner" \notin DOMAIN response.body
    \/ \E i \in 1..Len(response.body.providers) :
           ~(EntryFields \subseteq DOMAIN response.body.providers[i])

\* C11: a judge_providers call raises, and returns no JudgeResult, whenever the
\* API call raised, the response text is not JSON, or the response lacks a
\* required field: the top-level "providers" or "winner", or a field of an entry.
C11_MalformedFails ==
    (JudgeCalled /\ (call.response.status # "json" \/ LacksField(call.response))) =>
        value.raised

\* C12: every ProviderScore of a returned JudgeResult names a key of the
\* provider_outputs passed to judge_providers.
C12_UnknownIgnored ==
    (JudgeCalled /\ ~value.raised) =>
        \A i \in 1..Len(value.value.provider_scores) :
            DictHas(call.provider_outputs, value.value.provider_scores[i].provider)

C13_InputsUntouched ==
    [][pc = "collecting" => provider_outputs' = provider_outputs]_vars

\* A call has returned in which a judge raised and another returned, and
\* provider_outputs is what the caller passed.
C13_Witness ==
    /\ pc = "returned"
    /\ RaisedJudges # {}
    /\ ReturnedJudges # {}
    /\ provider_outputs \in ProviderOutputsChoices

\* C14: within a judge_document call no judge's judge_providers is invoked more
\* than once, and when the call is over it has been invoked exactly once on
\* every judge of the panel, on those that raised as on those that returned,
\* and on no other variant.
C14_OneCallEach ==
    /\ \A v \in VariantSet : api_calls[v] <= 1
    /\ CallOver =>
           \A v \in VariantSet : api_calls[v] = IF v \in JudgeSet THEN 1 ELSE 0

\* A call is over in which a judge raised, after its one invocation.
C14_Witness ==
    /\ CallOver
    /\ \E v \in RaisedJudges : api_calls[v] = 1
    /\ \E v \in ReturnedJudges : api_calls[v] = 1

\* C15: a submitted judge_providers call never has to wait for another judge's
\* call to finish: whenever a call is pending, a worker thread can start it,
\* however many other calls are in progress.
C15_NoWaiting ==
    \A v \in VariantSet : (futures[v] = Pending) => ENABLED JudgeStart(v)

\* The calls of all three judges of a panel are in progress at once.
C15_Witness ==
    /\ Len(judges) = Len(Variants)
    /\ \A v \in JudgeSet : futures[v] = Running

\* The call of HungJudge is in progress and every other judge's call is over.
OneJudgeHangs ==
    /\ pc = "collecting"
    /\ futures[HungJudge] = Running
    /\ \A v \in JudgeSet \ {HungJudge} : IsDone(futures[v])

\* C16: when one judge's call stays in progress while the other judges' calls
\* have finished, the judge_document call is still eventually over.
C16_HungJudgeDropped == OneJudgeHangs ~> CallOver

\* The votes of a results dict have been counted, and there was a winner.
Tallied == call = NoCall /\ value # NoResult /\ ~value.raised

\* The winner of the judge whose result arrived first.
FirstWinner == value.individual_results[1].v.winner

\* C17, as stated: winner_consensus_percentage is
\* 100 * winner_votes[consensus_winner] / (number of judges in individual_results).
C17_PluralityShare ==
    Tallied =>
        value.winner_consensus_percentage =
            Rat(100 * DictGet(value.winner_votes, value.consensus_winner),
                Len(value.individual_results))

\* C17, amended: winner_consensus_percentage is 100 * (the votes of the winner
\* of the first-arrived judge) / (number of judges in individual_results), and
\* it is the share of the plurality winner exactly when that first judge's
\* winner is the consensus winner.
C17_FirstJudgeShare ==
    Tallied =>
        /\ value.winner_consensus_percentage =
               Rat(100 * DictGet(value.winner_votes, FirstWinner),
                   Len(value.individual_results))
        /\ (value.winner_consensus_percentage =
               Rat(100 * DictGet(value.winner_votes, value.consensus_winner),
                   Len(value.individual_results)))
             <=> (FirstWinner = value.consensus_winner)

\* Of three judges the first to arrive named B and the two others A: the
\* consensus winner A has two votes of three, the percentage is a third.
C17_Witness ==
    /\ Tallied
    /\ Len(value.individual_results) = 3
    /\ FirstWinner = "B"
    /\ value.consensus_winner = "A"
    /\ DictGet(value.winner_votes, "A") = 2
    /\ value.winner_consensus_percentage = Rat(100, 3)

\* The providers with the maximum vote count.
TopVoted(votes) ==
    {votes[i].k : i \in {i \in 1..Len(votes) : \A j \in 1..Len(votes) : votes[j].v <= votes[i].v}}

Agreed == call = NoCall /\ value # NoResult /\ "agreement" \in DOMAIN value

\* The pairs of positions i < j of the collected results.
JudgePairs == {ij \in (1..Len(value.individual_results)) \X (1..Len(value.individual_results)) :
                  ij[1] < ij[2]}

PairKey(ij) ==
    value.individual_results[ij[1]].k \o "_vs_" \o value.individual_results[ij[2]].k

ScoresAt(i) == OverallQualities(value.individual_results[i].v)

\* The two judges scored equally many providers, at least 2.
Comparable(ij) == Len(ScoresAt(ij[1])) = Len(ScoresAt(ij[2])) /\ Len(ScoresAt(ij[1])) >= 2

\* C21: pearson_correlation has an entry for a pair of successful judges exactly
\* when their provider_scores lists have the same length, at least 2, and it has
\* no other entry; the entry is the correlation of the two overall_quality
\* lists taken position by position.
C21_PairwiseEntries ==
    Agreed =>
        /\ \A ij \in JudgePairs :
               /\ DictHas(value.agreement.pearson_correlation, PairKey(ij)) <=> Comparable(ij)
               /\ Comparable(ij) =>
                      DictGet(value.agreement.pearson_correlation, PairKey(ij)) =
                          PearsonCorrelation(ScoresAt(ij[1]), ScoresAt(ij[2]))
        /\ Len(value.agreement.pearson_correlation) =
               Cardinality({ij \in JudgePairs : Comparable(ij)})

\* Two judges scored the same two providers in opposite orders, A then X and X
\* then A: taken by position their scores rise together and the entry is 1,
\* where the scores matched by provider name run against each other.
C21_Witness ==
    /\ Agreed
    /\ \E ij \in JudgePairs :
           /\ Comparable(ij)
           /\ Len(ScoresAt(ij[1])) = 2
           /\ value.individual_results[ij[1]].v.provider_scores[1].provider = "A"
           /\ value.individual_results[ij[1]].v.provider_scores[2].provider = "X"
           /\ value.individual_results[ij[2]].v.provider_scores[1].provider = "X"
           /\ value.individual_results[ij[2]].v.provider_scores[2].provider = "A"
           /\ DictGet(value.agreement.pearson_correlation, PairKey(ij)) = FromInt(1)
           /\ PearsonCorrelation(ScoresAt(ij[1]), <<ScoresAt(ij[2])[2], ScoresAt(ij[2])[1]>>)
                  = FromInt(-1)
    /\ \E ij \in JudgePairs : ~Comparable(ij)

\* C22: average_correlation times the number of computed correlations is
\* their sum, and it is 0 when none was computed; with a single successful
\* judge none is computed and confidence_level is LOW.
C22_AverageCorrelation ==
    Agreed =>
        /\ RMul(value.agreement.average_correlation,
                FromInt(Len(value.agreement.pearson_correlation))) =
               RSum(DictValues(value.agreement.pearson_correlation))
        /\ (value.agreement.pearson_correlation = <<>>) =>
               value.agreement.average_correlation = Zero
        /\ (Len(value.individual_results) < 2) =>
               /\ value.agreement.pearson_correlation = <<>>
               /\ value.agreement.average_correlation = Zero
               /\ value.agreement.confidence_level = "LOW"

\* Three correlations were computed, 1, 0 and 0, and their average is a third.
C22_Witness ==
    /\ Agreed
    /\ Len(value.agreement.pearson_correlation) = 3
    /\ value.agreement.pearson_correlation[1].v = FromInt(1)
    /\ value.agreement.average_correlation = Rat(1, 3)

\* A _pearson_correlation call applied on its own is over.
PearsonCalled == call # NoCall /\ "x" \in DOMAIN call /\ value # NoResult

\* All values of the vector are equal: its variance is zero.
ZeroVariance(xs) == \A i, j \in 1..Len(xs) : xs[i] = xs[j]

\* C23: _pearson_correlation raises nothing and returns 0.0 when either vector
\* has zero variance, when the vectors differ in length and when they have
\* fewer than 2 values.
C23_ZeroVarianceIsZero ==
    (PearsonCalled /\ (\/ ZeroVariance(call.x)
                       \/ ZeroVariance(call.y)
                       \/ Len(call.x) # Len(call.y)
                       \/ Len(call.x) < 2)) =>
        /\ ~value.raised
        /\ value.value = Zero

\* Two vectors of three values, the first constant and the second not: the
\* call returned 0.0.
C23_Witness ==
    /\ PearsonCalled
    /\ Len(call.x) = 3
    /\ Len(call.y) = 3
    /\ ZeroVariance(call.x)
    /\ ~ZeroVariance(call.y)
    /\ ~value.raised
    /\ value.value = Zero

\* C24: every JudgeResult returned by one of two concurrent judge_providers
\* calls on one judge object carries the cost and the thinking tokens of its
\* own API call.
C24_OwnBookkeeping ==
    \A t \in DOMAIN threads :
        (threads[t].pc = "returned") =>
            /\ threads[t].cost = CallCost(attrs.variant, SharedUsage(t))
            /\ threads[t].thinking_tokens = CallThinkingTokens(attrs.variant, SharedUsage(t))

\* C25: when the call of every judge has raised, judge_document has not
\* returned a PanelResult: it has raised, on the maximum of an empty tally, and
\* left no result.
C25_AllFailedRaises ==
    (CallOver /\ ReturnedJudges = {}) =>
        /\ pc = "raised"
        /\ panel_result = NoResult
        /\ results = <<>>
        /\ DetermineConsensusWinner(results).raised

\* A panel of three judges whose calls all raised, and judge_document raised.
C25_Witness ==
    /\ pc = "raised"
    /\ Cardinality(RaisedJudges) = 3
    /\ ReturnedJudges = {}

\* The winners the collected results name.
WinnersNamed ==
    {value.individual_results[i].v.winner : i \in 1..Len(value.individual_results)}

\* C26: a panel has at most 3 judges, and confidence_level is MEDIUM or HIGH
\* only when every successful judge named the same winner; when exactly 2 of 3
\* successful judges agree, winner_consensus_percentage is below 67 and
\* confidence_level is LOW, whatever the correlation.
C26_ConfidentOnlyUnanimous ==
    /\ Len(judges) <= 3
    /\ Agreed =>
           /\ Len(value.individual_results) <= Len(judges)
           /\ (value.agreement.confidence_level \in {"MEDIUM", "HIGH"}) =>
                  Cardinality(WinnersNamed) = 1
           /\ (Len(value.individual_results) = 3 /\ Cardinality(WinnersNamed) = 2) =>
                  /\ RLt(value.agreement.winner_consensus_percentage, FromInt(67))
                  /\ value.agreement.confidence_level = "LOW"

\* Two of three successful judges agree, the first of them among the two, and
\* the scores correlate perfectly: the confidence is LOW all the same.
C26_Witness ==
    /\ Agreed
    /\ Len(value.individual_results) = 3
    /\ Cardinality(WinnersNamed) = 2
    /\ value.agreement.winner_consensus_percentage = Rat(200, 3)
    /\ value.agreement.average_correlation = FromInt(1)
    /\ value.agreement.confidence_level = "LOW"

\* C27: in every returned PanelResult, individual_results, judges_used and the
\* counts of winner_votes taken together all number the judges whose call
\* returned; the judges of a panel write different judge_names, so each of
\* them has its own entry.
C27_OneEntryPerJudge ==
    /\ \A u, v \in JudgeSet : u # v => JudgeName(u) # JudgeName(v)
    /\ pc = "returned" =>
           /\ Len(panel_result.individual_results) = Cardinality(ReturnedJudges)
           /\ Len(panel_result.judges_used) = Cardinality(ReturnedJudges)
           /\ SumOf([i \in 1..Len(panel_result.winner_votes) |->
                        FromInt(panel_result.winner_votes[i].v)])
                  = FromInt(Cardinality(ReturnedJudges))
           /\ SeqToSet(panel_result.judges_used) =
                  {futures[v].result.judge_name : v \in ReturnedJudges}
           /\ \A v \in ReturnedJudges :
                  DictGet(panel_result.individual_results, futures[v].result.judge_name)
                      = futures[v].result

\* Two judges returned and named different winners, the third raised.
C27_Witness ==
    /\ pc = "returned"
    /\ Cardinality(ReturnedJudges) = 2
    /\ Cardinality(RaisedJudges) = 1
    /\ Len(panel_result.judges_used) = 2
    /\ Len(panel_result.winner_votes) = 2

\* C28: once judge_document has submitted the judges' calls, and every call
\* returns or raises, judge_document is eventually over: it returns a
\* PanelResult or raises.
C28_CallFinishes == (pc = "collecting") ~> CallOver

\* A call of three judges is over after one judge raised and two returned.
C28_Witness ==
    /\ CallOver
    /\ Len(judges) = 3
    /\ Cardinality(RaisedJudges) = 1
    /\ Cardinality(ReturnedJudges) = 2
    /\ yielded = JudgeSet

\* The requests that went past the status test and committed.
Started == {r \in DOMAIN requests : requests[r].pc \in {"committed", "accepted", "enqueue_failed"}}

\* C29: a run is started at most once: a request that finds the run in another
\* status than QUEUED creates no documents and enqueues no job, and whatever
\* the interleaving of the requests at most one of them commits, the documents
\* are those of one manifest and at most one process_run job is enqueued.
C29_StartedOnce ==
    /\ \A r \in DOMAIN requests :
           requests[r].seen # "queued" =>
               requests[r].pc \in {"pending", "queried", "rejected", "not_found"}
    /\ Cardinality(Started) <= 1
    /\ queue <= 1
    /\ documents \in {0} \cup {requests[r].files : r \in Started}

\* The statuses a finished run has.
TerminalStatuses == {"success", "partial", "failed"}

\* C30: once process_run has committed a terminal status, SUCCESS,
\* PARTIAL_SUCCESS or FAILED, no later step of it commits a different status.
C30_TerminalIsFinal ==
    [][(run_status \in TerminalStatuses) => (run_status' = run_status)]_vars
====
